---- MODULE Spec2Model ----
(***************************************************************************)
(* Resumable chunked ingestion pipeline of run_process_eth_digital.py:     *)
(* discovery of pending PDFs, chunking, batch dispatch, archive writing    *)
(* under part_<index>.jsonl.gz names, and resumption from the archives     *)
(* found in the output directory.                                          *)
(***************************************************************************)
EXTENDS Integers, Sequences, FiniteSets, TLC

VARIABLES
    inputDir,     \* set of file names in input_dir
    outDir,       \* output_dir: function file name -> file content
    pc,           \* position of process(): idle, sequence, dispatch, write, done, error, killed
    pending,      \* pdf_file_paths (line 81)
    start_idx,    \* start_idx (line 91)
    i,            \* loop counter of enumerate (line 92)
    results,      \* results of process_batch for the current chunk (line 95)
    at,           \* where the run stopped when pc is error or killed
    run,          \* number of process() invocations so far
    dirAtStart,   \* history: outDir when the current run started
    written,      \* history: part indices whose file the current run opened for writing
    seqCalls,     \* history: calls of get_next_part_index in the current run
    xformCalls,   \* history: items handed to the transformation in the current run
    failedNow,    \* history: items of the current run whose transformation failed
    last,         \* history: how the previous run ended
    added,        \* history: files that appeared in input_dir since the previous run started
    lst,          \* argument of chunk_list (chunker specification)
    chunk_size,   \* argument of chunk_list (chunker specification)
    yielded,      \* chunks the generator has yielded so far (chunker specification)
    seqResult,    \* result of a get_next_part_index call (directory specification)
    readResult    \* result of a collect_processed_pdfs call (directory specification)

vars == <<inputDir, outDir, pc, pending, start_idx, i, results, at, run,
          dirAtStart, written, seqCalls, xformCalls, failedNow, last, added,
          lst, chunk_size, yielded, seqResult, readResult>>

progVars == <<inputDir, outDir, pc, pending, start_idx, i, results, at, run,
              dirAtStart, written, seqCalls, xformCalls, failedNow, last, added>>
chunkVars == <<lst, chunk_size, yielded>>
dirVars == <<seqResult, readResult>>

(***************************************************************************)
(* Bounds of the model.  CHUNK_SIZE is 1000 in the source (line 16); the   *)
(* model runs the same code with a small chunk size.                       *)
(***************************************************************************)
MaxSrc == 2
MaxRuns == 2
CHUNK_SIZE == 2
MaxLen == 5
MaxChunk == 3

\* Width of the index in the pattern part_(\d{5}) and in the format :05.
PartDigits == 5

Min(a, b) == IF a < b THEN a ELSE b

(***************************************************************************)
(* File names of the input directory: a stem and an extension.  A path is  *)
(* os.path.join(input_dir, f); the join with the fixed directory keeps     *)
(* identity and order, so a path is represented by its file name.          *)
(***************************************************************************)
OtherFile == [stem |-> 2, ext |-> "txt"]

InputNames ==
    {[stem |-> s, ext |-> "pdf"] : s \in 1..MaxSrc}
        \cup {[stem |-> 1, ext |-> "PDF"], OtherFile}

\* A missing or empty metadata.file_path (falsy at line 40).
NoPath == [stem |-> 0, ext |-> ""]

\* str.lower() on the extension (line 74).
Lower(ext) == IF ext = "PDF" THEN "pdf" ELSE ext

\* Variant of IsPdf that compares the extension without lowering it.
IsPdfCaseSensitive(f) == f.ext = "pdf"

\* f.lower().endswith(".pdf") (line 74).
IsPdf(f) == Lower(f.ext) = "pdf"

\* Code point of the first character in which two extensions differ.
ExtCode(ext) == CASE ext = "PDF" -> 80 [] ext = "pdf" -> 112 [] ext = "txt" -> 116 [] OTHER -> 0

\* String comparison of two paths (the order sorted() uses, line 71).
LexLess(a, b) ==
    \/ a.stem < b.stem
    \/ a.stem = b.stem /\ ExtCode(a.ext) < ExtCode(b.ext)

RECURSIVE sorted(_)
sorted(S) ==
    IF S = {} THEN <<>>
    ELSE LET m == CHOOSE x \in S : \A y \in S \ {x} : LexLess(x, y)
         IN  <<m>> \o sorted(S \ {m})

\* Variant of FilterOut that subtracts nothing: every discovered path stays pending.
FilterOutNothing(seq, excluded) == seq

\* [fp for fp in seq if fp not in excluded] (line 81).
RECURSIVE FilterOut(_, _)
FilterOut(seq, excluded) ==
    IF seq = <<>> THEN <<>>
    ELSE IF Head(seq) \in excluded THEN FilterOut(Tail(seq), excluded)
         ELSE <<Head(seq)>> \o FilterOut(Tail(seq), excluded)

Range(seq) == {seq[k] : k \in 1..Len(seq)}

(***************************************************************************)
(* File names of the output directory: a stem, the run of decimal digits   *)
(* that follows it, and the dot-separated rest of the name.                *)
(***************************************************************************)
JsonlGz == <<".jsonl", ".gz">>

RECURSIVE Digits(_)
Digits(n) == IF n < 10 THEN <<n>> ELSE Append(Digits(n \div 10), n % 10)

RECURSIVE ZeroPad(_, _)
ZeroPad(ds, w) == IF Len(ds) >= w THEN ds ELSE ZeroPad(<<0>> \o ds, w)

RECURSIVE IntOf(_)
IntOf(ds) == IF ds = <<>> THEN 0 ELSE 10 * IntOf(SubSeq(ds, 1, Len(ds) - 1)) + ds[Len(ds)]

RECURSIVE Pow10(_)
Pow10(n) == IF n = 0 THEN 1 ELSE 10 * Pow10(n - 1)

\* f"part_{part_idx:05}.jsonl.gz" (line 97): at least five digits, zero padded.
PartFileName(part_idx) ==
    [stem |-> "part_", digits |-> ZeroPad(Digits(part_idx), PartDigits), tail |-> JsonlGz]

\* pattern.match(fname) with pattern part_(\d{5})\.jsonl\.gz (lines 50, 52):
\* anchored at the start of the name only.
PatternMatches(fname) ==
    /\ fname.stem = "part_"
    /\ Len(fname.digits) = PartDigits
    /\ Len(fname.tail) >= 2
    /\ SubSeq(fname.tail, 1, 2) = JsonlGz

\* Variant of EndsWithJsonlGz that accepts .jsonl.gz anywhere after the digits.
ContainsJsonlGz(fname) ==
    \E k \in 1..Len(fname.tail) :
        k + 1 <= Len(fname.tail) /\ SubSeq(fname.tail, k, k + 1) = JsonlGz

\* fname.endswith(".jsonl.gz") (line 34).
EndsWithJsonlGz(fname) ==
    /\ Len(fname.tail) >= 2
    /\ SubSeq(fname.tail, Len(fname.tail) - 1, Len(fname.tail)) = JsonlGz

(***************************************************************************)
(* Archive content: the lines of the file and whether the gzip stream is   *)
(* cut before its end-of-stream marker.                                    *)
(***************************************************************************)
Rec(p) == [kind |-> "rec", file_path |-> p]
BadLine == [kind |-> "bad", file_path |-> NoPath]
NonObjLine == [kind |-> "nonobj", file_path |-> NoPath]

NewFile == [lines |-> <<>>, truncated |-> FALSE]
EmptyDir == [n \in {} |-> NewFile]

Put(dir, name, file) ==
    [n \in (DOMAIN dir) \cup {name} |-> IF n = name THEN file ELSE dir[n]]

FileAt(dir, name) == IF name \in DOMAIN dir THEN dir[name] ELSE NewFile

\* json.dumps(sample.to_dict()) + "\n" (line 27).
Serialize(sample) == Rec(sample.file_path)

\* The file after `upto` of the samples were written in append mode (lines 25-27).
Appended(dir, name, samples, upto, cut) ==
    LET old == FileAt(dir, name)
    IN  Put(dir, name,
            [lines |-> old.lines \o [k \in 1..upto |-> Serialize(samples[k])],
             truncated |-> old.truncated \/ cut])

to_jsonl_gz(dir, name, samples) == Appended(dir, name, samples, Len(samples), FALSE)

\* Variant of Archives that opens only the names the sequencer's pattern accepts.
ArchivesMatchingPattern(dir) == {n \in DOMAIN dir : PatternMatches(n)}

\* The archives the reader opens (lines 33-35).
Archives(dir) == {n \in DOMAIN dir : EndsWithJsonlGz(n)}

\* gzip raises EOFError on a cut stream and obj.get raises AttributeError on a
\* JSON value that is no object; only json.JSONDecodeError is caught (line 42).
ReadRaises(dir) ==
    \E n \in Archives(dir) :
        \/ dir[n].truncated
        \/ \E k \in 1..Len(dir[n].lines) : dir[n].lines[k].kind = "nonobj"

\* Variant of PathsOf that stops after the first line of the archive.
PathsOfFirstLine(file) ==
    IF /\ Len(file.lines) >= 1
       /\ file.lines[1].kind = "rec"
       /\ file.lines[1].file_path # NoPath
    THEN {file.lines[1].file_path} ELSE {}

\* Variant of PathsOf that gives up on an archive at its first unparseable line.
PathsOfUntilBadLine(file) ==
    {file.lines[k].file_path :
        k \in {j \in 1..Len(file.lines) :
                  /\ file.lines[j].kind = "rec"
                  /\ file.lines[j].file_path # NoPath
                  /\ \A h \in 1..j : file.lines[h].kind # "bad"}}

\* The file_path values the lines of one archive add to `processed` (lines 36-43).
PathsOf(file) ==
    {file.lines[k].file_path :
        k \in {j \in 1..Len(file.lines) :
                  /\ file.lines[j].kind = "rec"
                  /\ file.lines[j].file_path # NoPath}}

collect_processed_pdfs(dir) ==
    [raised |-> ReadRaises(dir),
     processed |-> UNION {PathsOf(dir[n]) : n \in Archives(dir)}]

get_next_part_index(dir) ==
    LET matched == {IntOf(n.digits) : n \in {m \in DOMAIN dir : PatternMatches(m)}}
        max_index == IF matched = {} THEN -1
                     ELSE CHOOSE x \in matched : \A y \in matched : y <= x
    IN  max_index + 1

(***************************************************************************)
(* chunk_list (lines 19-21).                                               *)
(***************************************************************************)
\* lst[a:b] for 0 <= a <= b.
Slice(seq, a, b) == SubSeq(seq, a + 1, Min(b, Len(seq)))

\* Variant of ChunksFrom that yields full chunks only and drops a shorter last one.
RECURSIVE FullChunksFrom(_, _, _)
FullChunksFrom(seq, size, from) ==
    IF from + size > Len(seq) THEN <<>>
    ELSE <<Slice(seq, from, from + size)>> \o FullChunksFrom(seq, size, from + size)

\* The chunks the generator yields from position i on: `for i in range(0, len(lst),
\* chunk_size): yield lst[i:i + chunk_size]`.
RECURSIVE ChunksFrom(_, _, _)
ChunksFrom(seq, size, from) ==
    IF from >= Len(seq) THEN <<>>
    ELSE <<Slice(seq, from, from + size)>> \o ChunksFrom(seq, size, from + size)

chunk_list(seq, size) == ChunksFrom(seq, size, 0)

(***************************************************************************)
(* Batch dispatcher: process_batch of PDFProcessor is not part of this     *)
(* file.  Each item of the chunk yields a sample that carries its path, or *)
(* fails and is dropped; the samples keep the order of the chunk.          *)
(***************************************************************************)
Sample(p) == [file_path |-> p]

RECURSIVE Successes(_, _, _)
Successes(chunk, outcome, k) ==
    IF k > Len(chunk) THEN <<>>
    ELSE (IF outcome[k] THEN <<Sample(chunk[k])>> ELSE <<>>)
            \o Successes(chunk, outcome, k + 1)

process_batch(chunk, outcome) == Successes(chunk, outcome, 1)

(***************************************************************************)
(* process() (lines 59-102), one action per step.                          *)
(***************************************************************************)
Stopped == {"idle", "done", "error", "killed"}

\* Variant of NothingToDo without the early return.
NeverNothingToDo(pdf_file_paths) == FALSE

\* `if not pdf_file_paths: return` (lines 84-86).
NothingToDo(pdf_file_paths) == pdf_file_paths = <<>>

Chunks == chunk_list(pending, CHUNK_SIZE)

\* Lines 59-86: discovery, the archive reader, the pending list, the early return.
\* newFiles: the files put into input_dir since the previous run listed it.
DiscoverWith(newFiles) ==
    /\ pc \in Stopped
    /\ run < MaxRuns
    /\ inputDir' = inputDir \cup newFiles
    /\ added' = newFiles
    /\ LET all_pdfs == sorted({f \in inputDir' : IsPdf(f)})
           got == collect_processed_pdfs(outDir)
           pdf_file_paths == FilterOut(all_pdfs, got.processed)
       IN  /\ pending' = IF got.raised THEN <<>> ELSE pdf_file_paths
           /\ pc' = IF got.raised THEN "error"
                     ELSE IF NothingToDo(pdf_file_paths) THEN "done" ELSE "sequence"
           /\ at' = IF got.raised THEN "read" ELSE "none"
    /\ run' = run + 1
    /\ dirAtStart' = outDir
    /\ written' = {}
    /\ seqCalls' = 0
    /\ xformCalls' = 0
    /\ failedNow' = {}
    /\ last' = [how |-> pc, at |-> at, failed |-> failedNow # {}]
    /\ start_idx' = 0
    /\ i' = 0
    /\ results' = <<>>
    /\ UNCHANGED <<outDir, chunkVars, dirVars>>

\* A run of process() starts; the files that appeared in the input directory
\* since the previous run are there when line 73 lists it.
Discover == \E newFiles \in SUBSET (InputNames \ inputDir) : DiscoverWith(newFiles)

\* Variant of Sequence that returns without entering the loop over the chunks.
SequenceAndReturn ==
    /\ pc = "sequence"
    /\ start_idx' = get_next_part_index(outDir)
    /\ seqCalls' = seqCalls + 1
    /\ i' = 0
    /\ pc' = "done"
    /\ UNCHANGED <<inputDir, outDir, pending, results, at, run, dirAtStart, written,
                   xformCalls, failedNow, last, added, chunkVars, dirVars>>

\* Lines 88-92: the part sequencer, once, and the entry of the loop.
Sequence ==
    /\ pc = "sequence"
    /\ start_idx' = get_next_part_index(outDir)
    /\ seqCalls' = seqCalls + 1
    /\ i' = 0
    /\ pc' = IF Len(Chunks) = 0 THEN "done" ELSE "dispatch"
    /\ UNCHANGED <<inputDir, outDir, pending, results, at, run, dirAtStart, written,
                   xformCalls, failedNow, last, added, chunkVars, dirVars>>

\* Variant of Dispatch that hands the following chunk to process_batch as well,
\* before the current chunk's results are written.
DispatchAhead ==
    /\ pc = "dispatch"
    /\ LET chunk == Chunks[i + 1]
           ahead == IF i + 2 <= Len(Chunks) THEN Len(Chunks[i + 2]) ELSE 0
       IN  \E outcome \in [1..Len(chunk) -> BOOLEAN] :
              /\ results' = process_batch(chunk, outcome)
              /\ xformCalls' = xformCalls + Len(chunk) + ahead
              /\ failedNow' = failedNow \cup
                                {chunk[k] : k \in {j \in 1..Len(chunk) : ~outcome[j]}}
    /\ pc' = "write"
    /\ UNCHANGED <<inputDir, outDir, pending, start_idx, i, at, run, dirAtStart,
                   written, seqCalls, last, added, chunkVars, dirVars>>

\* Lines 93-95: the chunk is handed to process_batch.
Dispatch ==
    /\ pc = "dispatch"
    /\ LET chunk == Chunks[i + 1]
       IN  \E outcome \in [1..Len(chunk) -> BOOLEAN] :
              /\ results' = process_batch(chunk, outcome)
              /\ xformCalls' = xformCalls + Len(chunk)
              /\ failedNow' = failedNow \cup
                                {chunk[k] : k \in {j \in 1..Len(chunk) : ~outcome[j]}}
    /\ pc' = "write"
    /\ UNCHANGED <<inputDir, outDir, pending, start_idx, i, at, run, dirAtStart,
                   written, seqCalls, last, added, chunkVars, dirVars>>

\* Variant of Write that names the part one index too far.
WriteOffByOne ==
    /\ pc = "write"
    /\ outDir' = to_jsonl_gz(outDir, PartFileName(start_idx + i + 1), results)
    /\ written' = written \cup {start_idx + i + 1}
    /\ i' = i + 1
    /\ results' = <<>>
    /\ pc' = IF i + 1 < Len(Chunks) THEN "dispatch" ELSE "done"
    /\ UNCHANGED <<inputDir, pending, start_idx, at, run, dirAtStart, seqCalls,
                   xformCalls, failedNow, last, added, chunkVars, dirVars>>

\* Lines 97-99 and the next iteration: the results are written to the part file.
Write ==
    /\ pc = "write"
    /\ outDir' = to_jsonl_gz(outDir, PartFileName(start_idx + i), results)
    /\ written' = written \cup {start_idx + i}
    /\ i' = i + 1
    /\ results' = <<>>
    /\ pc' = IF i + 1 < Len(Chunks) THEN "dispatch" ELSE "done"
    /\ UNCHANGED <<inputDir, pending, start_idx, at, run, dirAtStart, seqCalls,
                   xformCalls, failedNow, last, added, chunkVars, dirVars>>

\* Variant of WriteFail that swallows the error: the loop goes on to the next chunk.
WriteFailSwallowed ==
    /\ pc = "write"
    /\ \E opened \in BOOLEAN, upto \in 0..Len(results), cut \in BOOLEAN :
          /\ ~opened => (upto = 0 /\ ~cut)
          /\ outDir' = IF opened
                        THEN Appended(outDir, PartFileName(start_idx + i), results, upto, cut)
                        ELSE outDir
          /\ written' = IF opened THEN written \cup {start_idx + i} ELSE written
    /\ i' = i + 1
    /\ results' = <<>>
    /\ pc' = IF i + 1 < Len(Chunks) THEN "dispatch" ELSE "done"
    /\ UNCHANGED <<inputDir, pending, start_idx, at, run, dirAtStart, seqCalls,
                   xformCalls, failedNow, last, added, chunkVars, dirVars>>

\* Lines 25-27 raise (the file cannot be opened, or a write fails part way):
\* the error leaves process().
WriteFail ==
    /\ pc = "write"
    /\ \E opened \in BOOLEAN, upto \in 0..Len(results), cut \in BOOLEAN :
          /\ ~opened => (upto = 0 /\ ~cut)
          /\ outDir' = IF opened
                        THEN Appended(outDir, PartFileName(start_idx + i), results, upto, cut)
                        ELSE outDir
          /\ written' = IF opened THEN written \cup {start_idx + i} ELSE written
    /\ pc' = "error"
    /\ at' = "write"
    /\ UNCHANGED <<inputDir, pending, start_idx, i, results, run, dirAtStart, seqCalls,
                   xformCalls, failedNow, last, added, chunkVars, dirVars>>

\* The process is killed between two steps: nothing on disk changes.  "between"
\* is the loop head after the write of a chunk and before the next dispatch.
Kill ==
    /\ pc \in {"sequence", "dispatch", "write"}
    /\ pc' = "killed"
    /\ at' = IF pc = "dispatch" /\ i >= 1 THEN "between" ELSE pc
    /\ UNCHANGED <<inputDir, outDir, pending, start_idx, i, results, run, dirAtStart,
                   written, seqCalls, xformCalls, failedNow, last, added,
                   chunkVars, dirVars>>

\* The process is killed inside to_jsonl_gz: the file exists; either nothing
\* reached the disk or the gzip stream is cut after some of the lines.
KillInWrite ==
    /\ pc = "write"
    /\ \E upto \in 0..Len(results), cut \in BOOLEAN :
          /\ ~cut => upto = 0
          /\ outDir' = Appended(outDir, PartFileName(start_idx + i), results, upto, cut)
    /\ written' = written \cup {start_idx + i}
    /\ pc' = "killed"
    /\ at' = "inwrite"
    /\ UNCHANGED <<inputDir, pending, start_idx, i, results, run, dirAtStart, seqCalls,
                   xformCalls, failedNow, last, added, chunkVars, dirVars>>

\* An output directory late in its life: its highest part carries the largest
\* index the five digits of the name can hold.  The parts below it are left out:
\* they hold records of other sources and do not change the pattern's maximum.
LateDir == Put(EmptyDir, PartFileName(Pow10(PartDigits) - 1), NewFile)

ProgInit ==
    /\ inputDir = {OtherFile}
    /\ pc = "idle"
    /\ pending = <<>>
    /\ start_idx = 0
    /\ i = 0
    /\ results = <<>>
    /\ at = "none"
    /\ run = 0
    /\ dirAtStart = EmptyDir
    /\ written = {}
    /\ seqCalls = 0
    /\ xformCalls = 0
    /\ failedNow = {}
    /\ last = [how |-> "none", at |-> "none", failed |-> FALSE]
    /\ added = {}

NotCalled == [called |-> FALSE, raised |-> FALSE, processed |-> {}]

ChunkIdle == lst = <<>> /\ chunk_size = 1 /\ yielded = <<>>
DirIdle == seqResult = -1 /\ readResult = NotCalled

Init ==
    /\ ProgInit
    /\ outDir \in {EmptyDir, LateDir}
    /\ ChunkIdle
    /\ DirIdle

Next ==
    \/ Discover
    \/ Sequence
    \/ Dispatch
    \/ Write
    \/ WriteFail
    \/ Kill
    \/ KillInWrite

Spec == Init /\ [][Next]_vars

\* The runs in which every call of process_batch and of to_jsonl_gz returns and
\* the process is not killed: each step of process() that can be taken is
\* eventually taken.
NextReturns ==
    \/ Discover
    \/ Sequence
    \/ Dispatch
    \/ Write

SpecReturns ==
    /\ Init
    /\ [][NextReturns]_vars
    /\ WF_vars(Sequence)
    /\ WF_vars(Dispatch)
    /\ WF_vars(Write)

(***************************************************************************)
(* The chunker on its own: chunk_list over every list of at most MaxLen    *)
(* elements and every chunk size of at most MaxChunk, one chunk per step.  *)
(***************************************************************************)
Elems == 1..2

InitChunk ==
    /\ ProgInit
    /\ outDir = EmptyDir
    /\ DirIdle
    /\ lst \in UNION {[1..n -> Elems] : n \in 0..MaxLen}
    /\ chunk_size \in 1..MaxChunk
    /\ yielded = <<>>

YieldChunk ==
    /\ Len(yielded) < Len(chunk_list(lst, chunk_size))
    /\ yielded' = Append(yielded, chunk_list(lst, chunk_size)[Len(yielded) + 1])
    /\ UNCHANGED <<lst, chunk_size, progVars, dirVars>>

NextChunk == YieldChunk

SpecChunk == InitChunk /\ [][NextChunk]_vars

(***************************************************************************)
(* The part sequencer and the archive reader on their own, over output     *)
(* directories that also hold files the pipeline did not write.            *)
(***************************************************************************)
P1 == [stem |-> 1, ext |-> "pdf"]
P2 == [stem |-> 2, ext |-> "pdf"]

DirNames ==
    {PartFileName(0), PartFileName(2), PartFileName(Pow10(PartDigits)),
     [stem |-> "part_", digits |-> <<0, 0, 0, 0, 7>>, tail |-> JsonlGz \o <<".bak">>],
     [stem |-> "part_", digits |-> <<0, 0, 9>>, tail |-> JsonlGz],
     [stem |-> "notes_", digits |-> <<>>, tail |-> JsonlGz]}

DirContents ==
    {NewFile,
     [lines |-> <<Rec(P1), BadLine, Rec(P2)>>, truncated |-> FALSE],
     [lines |-> <<Rec(NoPath), Rec(P1)>>, truncated |-> FALSE],
     [lines |-> <<Rec(P2)>>, truncated |-> TRUE],
     [lines |-> <<NonObjLine>>, truncated |-> FALSE]}

InitDir ==
    /\ ProgInit
    /\ ChunkIdle
    /\ DirIdle
    /\ outDir \in UNION {[S -> DirContents] : S \in SUBSET DirNames}

CallSequencer ==
    /\ seqResult = -1
    /\ seqResult' = get_next_part_index(outDir)
    /\ UNCHANGED <<readResult, progVars, chunkVars>>

CallReader ==
    /\ ~readResult.called
    /\ LET got == collect_processed_pdfs(outDir)
       IN  readResult' = [called |-> TRUE, raised |-> got.raised,
                          processed |-> IF got.raised THEN {} ELSE got.processed]
    /\ UNCHANGED <<seqResult, progVars, chunkVars>>

NextDir == CallSequencer \/ CallReader

SpecDir == InitDir /\ [][NextDir]_vars

(***************************************************************************)
(* Vocabulary of the properties, stated on the files themselves.           *)
(***************************************************************************)
\* The names line 97 can produce: part_, at least five digits, .jsonl.gz.
IsPartName(n) ==
    /\ n.stem = "part_"
    /\ n.tail = JsonlGz
    /\ Len(n.digits) >= PartDigits
    /\ (Len(n.digits) > PartDigits => n.digits[1] # 0)

PartIndices(dir) == {IntOf(n.digits) : n \in {m \in DOMAIN dir : IsPartName(m)}}

\* The names of exactly the form part_<5 digits>.jsonl.gz.
ExactPartNames(dir) ==
    {n \in DOMAIN dir : n.stem = "part_" /\ Len(n.digits) = 5 /\ n.tail = JsonlGz}

MaxOf(S) == CHOOSE x \in S : \A y \in S : y <= x

\* Number of records of the directory that carry the identifier p.
RecordCount(dir, p) ==
    Cardinality(UNION {{<<n, k>> : k \in {j \in 1..Len(dir[n].lines) :
                                              dir[n].lines[j] = Rec(p)}} :
                       n \in DOMAIN dir})

Recorded(dir) == {p \in InputNames : RecordCount(dir, p) >= 1}

\* The source files of the input directory.
Sources == {f \in inputDir : f.ext \in {"pdf", "PDF"}}

CeilDiv(n, d) == IF n % d = 0 THEN n \div d ELSE (n \div d) + 1

RECURSIVE Concat(_)
Concat(seqs) == IF seqs = <<>> THEN <<>> ELSE Head(seqs) \o Concat(Tail(seqs))

(***************************************************************************)
(* C1                                                                      *)
(***************************************************************************)
\* The current run is a second run: the previous run returned normally and
\* nothing was put into the input directory since.
C1Case == run >= 2 /\ last.how = "done" /\ added = {}

C1Idle == pc = "done" /\ pending = <<>> /\ written = {} /\ outDir = dirAtStart

C2_SequenceMonotonic ==
    \A w \in written : \A e \in PartIndices(dirAtStart) : w > e

(***************************************************************************)
(* C3                                                                      *)
(***************************************************************************)
\* C3: chunk_list yields ceil(N/S) chunks, each non-empty, all but the last of
\* S elements, whose concatenation in order is the input list.
C3_ChunkPartition ==
    /\ \A k \in 1..Len(yielded) :
          /\ yielded[k] # <<>>
          /\ Len(yielded[k]) <= chunk_size
          /\ k < Len(yielded) => Len(yielded[k]) = chunk_size
    /\ Len(Concat(yielded)) <= Len(lst)
    /\ Concat(yielded) = SubSeq(lst, 1, Len(Concat(yielded)))
    /\ ~ENABLED YieldChunk =>
          /\ Len(yielded) = CeilDiv(Len(lst), chunk_size)
          /\ Concat(yielded) = lst

C3_Witness ==
    /\ ~ENABLED YieldChunk
    /\ Len(yielded) >= 2
    /\ Len(yielded[Len(yielded)]) < chunk_size

(***************************************************************************)
(* C4                                                                      *)
(***************************************************************************)
\* C4: after any sequence of runs, no source identifier is carried by more than
\* one record of the output directory.
C4_NoDoubleProcessing == \A p \in InputNames : RecordCount(outDir, p) <= 1

C4_Witness ==
    /\ run = 2
    /\ pc = "done"
    /\ Recorded(dirAtStart) # {}
    /\ Recorded(outDir) # Recorded(dirAtStart)

(***************************************************************************)
(* C5                                                                      *)
(***************************************************************************)
\* C5: when one item of a chunk fails and the other K succeed, the part written
\* for the chunk holds exactly K records and the run goes on to the next chunk.
C5_PartialFailureIsolation ==
    [][(/\ pc = "write"
        /\ pc' \in {"dispatch", "done"}
        /\ Len(results) + 1 = Len(Chunks[i + 1]))
       => (/\ Len(outDir'[PartFileName(start_idx + i)].lines) = Len(results)
           /\ (i + 1 < Len(Chunks) => pc' = "dispatch"))]_vars

(***************************************************************************)
(* C6                                                                      *)
(***************************************************************************)
\* The previous run was killed between the write of a chunk and the next chunk.
C6Case == last.how = "killed" /\ last.at = "between"

Unrecorded == {f \in Sources : RecordCount(dirAtStart, f) = 0}

\* C6: after a kill between two chunks the next run reads the archives without
\* error, its pending list is exactly the sources without a record, and once it
\* completes with every transformation succeeding each source has one record.
C6_InterruptionTolerance ==
    C6Case =>
        /\ at # "read"
        /\ Range(pending) = Unrecorded
        /\ Len(pending) = Cardinality(Unrecorded)
        /\ (pc = "done" /\ failedNow = {}) =>
              \A f \in Sources : RecordCount(outDir, f) = 1

C6_Witness ==
    /\ C6Case
    /\ pc = "done"
    /\ failedNow = {}
    /\ written # {}
    /\ Recorded(dirAtStart) # {}

(***************************************************************************)
(* C7                                                                      *)
(***************************************************************************)
\* C7: a run whose pending list is empty returns without calling the part
\* sequencer or the transformation and leaves the output directory as it was.
C7_EmptyWorkShortCircuit ==
    (pc = "done" /\ pending = <<>>) =>
        (seqCalls = 0 /\ xformCalls = 0 /\ outDir = dirAtStart)

C7_Witness ==
    /\ pc = "done"
    /\ pending = <<>>
    /\ Sources # {}
    /\ Recorded(dirAtStart) = Sources

(***************************************************************************)
(* C8                                                                      *)
(***************************************************************************)
\* Both the previous run and the current one completed without a failure.
C8Case == run >= 2 /\ last.how = "done" /\ ~last.failed /\ pc = "done" /\ failedNow = {}

\* C8: the run after a complete one writes one record for each added source and
\* no other, in parts numbered from one more than the largest existing index.
C8_IncrementalRun ==
    C8Case =>
        /\ \A p \in InputNames :
              RecordCount(outDir, p) - RecordCount(dirAtStart, p)
                  = (IF p \in added /\ p \in Sources THEN 1 ELSE 0)
        /\ LET m == MaxOf(PartIndices(dirAtStart) \cup {-1})
           IN  written = (m + 1)..(m + Cardinality(written))

(***************************************************************************)
(* C9                                                                      *)
(***************************************************************************)
\* C9: get_next_part_index returns 0 when no name has exactly the form
\* part_<5 digits>.jsonl.gz and otherwise one more than the largest index among
\* the names of exactly that form; other names have no effect.
C9_SequencerResult ==
    seqResult # -1 =>
        seqResult = (IF ExactPartNames(outDir) = {} THEN 0
                     ELSE MaxOf({IntOf(n.digits) : n \in ExactPartNames(outDir)}) + 1)

(***************************************************************************)
(* C10                                                                     *)
(***************************************************************************)
\* C10: after a run that was killed while writing a part, the next run does not
\* end with an error raised by the archive reader.
C10_CorruptArchiveTolerated ==
    (last.how = "killed" /\ last.at = "inwrite") => ~(pc = "error" /\ at = "read")

(***************************************************************************)
(* C11                                                                     *)
(***************************************************************************)
\* The archives of the directory: the files whose name ends in .jsonl.gz.
ArchiveNames(dir) ==
    {n \in DOMAIN dir :
        \E pre \in {<<>>, <<".jsonl">>, <<".gz">>, <<".bak">>} : n.tail = pre \o JsonlGz}

\* Every archive is a complete gzip stream whose lines are records or lines
\* that do not parse as JSON.
RecordsAndBadLinesOnly(dir) ==
    \A n \in ArchiveNames(dir) :
        /\ ~dir[n].truncated
        /\ \A k \in 1..Len(dir[n].lines) : dir[n].lines[k].kind \in {"rec", "bad"}

\* The non-empty file_path values of the records of the archives.
PathsInArchives(dir) ==
    {p \in {P1, P2} :
        \E n \in ArchiveNames(dir) : \E k \in 1..Len(dir[n].lines) : dir[n].lines[k] = Rec(p)}

\* C11: over archives that mix records with lines that do not parse as JSON,
\* collect_processed_pdfs does not raise and returns exactly the non-empty
\* file_path values of the records, those after an unparseable line included.
C11_MalformedLinesSkipped ==
    (readResult.called /\ RecordsAndBadLinesOnly(outDir)) =>
        (~readResult.raised /\ readResult.processed = PathsInArchives(outDir))

\* An unparseable line stands before the only record of P2, and another archive
\* is read as well.
C11_Witness ==
    /\ readResult.called
    /\ RecordsAndBadLinesOnly(outDir)
    /\ P2 \in readResult.processed
    /\ Cardinality(ArchiveNames(outDir)) >= 2
    /\ \A n \in ArchiveNames(outDir) : \A k \in 1..Len(outDir[n].lines) :
          outDir[n].lines[k] = Rec(P2) => \E h \in 1..k : outDir[n].lines[h] = BadLine

(***************************************************************************)
(* C12                                                                     *)
(***************************************************************************)
\* The part of the current chunk is a complete archive that ends with the
\* records of the chunk's results.
ChunkOnDisk(dir) ==
    \E n \in DOMAIN dir :
        /\ n.stem = "part_" /\ IntOf(n.digits) = start_idx + i /\ n.tail = JsonlGz
        /\ ~dir[n].truncated
        /\ Len(dir[n].lines) >= Len(results)
        /\ \A k \in 1..Len(results) :
              dir[n].lines[Len(dir[n].lines) - Len(results) + k] = Rec(results[k].file_path)

\* C12: when the write of chunk i does not put the chunk's records on disk and
\* the process was not killed, the run ends with the write error, and after a
\* write error the run neither dispatches nor writes anything more.
C12_WriteErrorFatal ==
    [][/\ (pc = "write" /\ pc' # "killed" /\ ~ChunkOnDisk(outDir'))
            => (pc' = "error" /\ at' = "write")
       /\ (pc = "error" /\ at = "write" /\ run' = run)
            => (outDir' = outDir /\ xformCalls' = xformCalls /\ written' = written)]_vars

\* A write failed on the first of two chunks after part of it reached the disk.
C12_Witness ==
    /\ pc = "error"
    /\ at = "write"
    /\ i = 0
    /\ Len(Chunks) = 2
    /\ Len(results) = 2
    /\ xformCalls = 2
    /\ \E n \in DOMAIN outDir : Len(outDir[n].lines) = 1

(***************************************************************************)
(* C13                                                                     *)
(***************************************************************************)
\* Number of chunks handed to process_batch so far in the run: every chunk
\* before the last one holds CHUNK_SIZE items.
ChunksDispatched == CeilDiv(xformCalls, CHUNK_SIZE)

PartsOfFirst(m) == {start_idx + k : k \in 0..(m - 1)}

\* C13: at every moment of a run the parts it has written are those of the
\* chunks dispatched so far, the last of them possibly still to come; and the
\* items of a chunk are transformed only once the parts of all the chunks
\* before it are written, one chunk at a time.
C13_ChunksSequential ==
    /\ [](/\ PartsOfFirst(ChunksDispatched - 1) \subseteq written
          /\ written \subseteq PartsOfFirst(ChunksDispatched)
          /\ ChunksDispatched <= Len(Chunks))
    /\ [][(run' = run /\ xformCalls' # xformCalls)
            => (/\ xformCalls % CHUNK_SIZE = 0
                /\ written = PartsOfFirst(xformCalls \div CHUNK_SIZE)
                /\ xformCalls' > xformCalls
                /\ xformCalls' - xformCalls <= CHUNK_SIZE
                /\ written' = written)]_vars

\* The second chunk of a run is being written after the first one.
C13_Witness ==
    /\ pc = "write"
    /\ ChunksDispatched = 2
    /\ written = {start_idx}
    /\ xformCalls = Len(pending)

(***************************************************************************)
(* C14                                                                     *)
(***************************************************************************)
\* The files of dirB that are not in dirA with the same content.
Changed(dirA, dirB) ==
    {n \in DOMAIN dirB : n \notin DOMAIN dirA \/ dirB[n] # dirA[n]}

\* The names that spell the part index idx.
NamesOfIndex(dir, idx) ==
    {n \in DOMAIN dir : n.stem = "part_" /\ IntOf(n.digits) = idx /\ n.tail = JsonlGz}

\* C14: the sequencer is evaluated once per run, before the first chunk, and
\* its result stays the run's start index; the write of the chunk number k
\* (0-based) leaves a part of index start_idx + k, changes no other file, and
\* is followed by the next chunk whenever there is one, whatever the number of
\* the chunk's items that succeeded.
C14_OneIndexPerChunk ==
    /\ [](/\ seqCalls <= 1
          /\ ((xformCalls > 0 \/ written # {}) => seqCalls = 1))
    /\ [][/\ ((run' = run /\ seqCalls = 1) => (seqCalls' = 1 /\ start_idx' = start_idx))
           /\ (pc = "write" /\ pc' \in {"dispatch", "done"})
                => LET k == ChunksDispatched - 1
                   IN  /\ NamesOfIndex(outDir', start_idx + k) # {}
                       /\ Changed(outDir, outDir') \subseteq NamesOfIndex(outDir', start_idx + k)
                       /\ written' = written \cup {start_idx + k}
                       /\ pc' = IF k + 1 < Len(Chunks) THEN "dispatch" ELSE "done"]_vars

\* Every item of the first chunk failed; its empty part is written and the run
\* is at the next chunk.
C14_Witness ==
    /\ pc = "dispatch"
    /\ xformCalls = CHUNK_SIZE
    /\ Cardinality(failedNow) = CHUNK_SIZE
    /\ written = {start_idx}
    /\ \E n \in NamesOfIndex(outDir, start_idx) : outDir[n].lines = <<>>

(***************************************************************************)
(* C15                                                                     *)
(***************************************************************************)
\* C15: the part a chunk is written to does not exist before the write, and no
\* step of a run changes or removes a file that is in the output directory.
C15_NewFilePerChunk ==
    [][/\ (pc = "write" /\ written' # written)
            => NamesOfIndex(outDir, start_idx + ChunksDispatched - 1) = {}
       /\ \A n \in DOMAIN outDir : n \in DOMAIN outDir' /\ outDir'[n] = outDir[n]]_vars

(***************************************************************************)
(* C16                                                                     *)
(***************************************************************************)
\* The run built its pending list: the archive reader returned.
PendingBuilt == run >= 1 /\ ~(pc = "error" /\ at = "read")

\* C16: the pending list holds exactly the sources of the input directory
\* that have no record of exactly their path in the archives read at the start
\* of the run, in increasing string order, none of them twice.
C16_PendingWork ==
    PendingBuilt =>
        /\ Range(pending) = Sources \ Recorded(dirAtStart)
        /\ \A a, b \in 1..Len(pending) : a < b => LexLess(pending[a], pending[b])

\* 1.pdf has a record; 1.PDF, which differs from it by case only, and 2.pdf
\* are pending in that order.
C16_Witness ==
    /\ PendingBuilt
    /\ [stem |-> 1, ext |-> "pdf"] \in Recorded(dirAtStart)
    /\ pending = <<[stem |-> 1, ext |-> "PDF"], [stem |-> 2, ext |-> "pdf"]>>

(***************************************************************************)
(* C17                                                                     *)
(***************************************************************************)
\* The identifiers of the records held by the named files.
RecordedIn(dir, names) ==
    {p \in {P1, P2} : \E n \in names : \E k \in 1..Len(dir[n].lines) : dir[n].lines[k] = Rec(p)}

\* C17 as stated: every identifier the reader returns is recorded in a file
\* named like a part file.
C17_OnlyPartFiles ==
    readResult.called =>
        readResult.processed \subseteq
            RecordedIn(outDir, {n \in DOMAIN outDir : IsPartName(n)})

\* C17 amended: every identifier the reader returns is recorded in a file
\* whose name ends in .jsonl.gz; a file whose name does not end in .jsonl.gz
\* contributes no identifier.
C17_OnlyJsonlGzFiles ==
    readResult.called =>
        readResult.processed \subseteq RecordedIn(outDir, ArchiveNames(outDir))

\* The reader returned the identifier of notes_.jsonl.gz and not the one that
\* only part_00007.jsonl.gz.bak records.
C17_Witness ==
    /\ readResult.called
    /\ ~readResult.raised
    /\ readResult.processed = {P1}
    /\ RecordedIn(outDir, {n \in DOMAIN outDir : n.stem = "notes_"}) = {P1}
    /\ RecordedIn(outDir, {n \in DOMAIN outDir : IsPartName(n)}) = {}
    /\ P2 \in RecordedIn(outDir, DOMAIN outDir \ ArchiveNames(outDir))

(***************************************************************************)
(* C18                                                                     *)
(***************************************************************************)
\* C18: a run whose calls all return terminates, and when it has terminated
\* it has dispatched and written ceil(N/S) chunks, every one of the N pending
\* items in one of them.
C18_RunTerminates ==
    /\ (pc \in {"sequence", "dispatch", "write"}) ~> (pc = "done")
    /\ []((pc = "done" /\ run >= 1)
            => /\ ChunksDispatched = CeilDiv(Len(pending), CHUNK_SIZE)
               /\ xformCalls = Len(pending)
               /\ Cardinality(written) = CeilDiv(Len(pending), CHUNK_SIZE))

\* A run of two chunks, the second one shorter than the first, has returned.
C18_Witness ==
    /\ pc = "done"
    /\ Len(pending) = CHUNK_SIZE + 1
    /\ Cardinality(written) = 2
    /\ xformCalls = Len(pending)

(***************************************************************************)
(* C19                                                                     *)
(***************************************************************************)
\* C19: a source whose transformation failed in a run has no record in the
\* output directory when the next run starts, and is in the pending list the
\* next run builds.
C19_FailedItemsRetried ==
    [][run' # run
        => /\ failedNow \cap Recorded(outDir) = {}
           /\ failedNow \subseteq Range(pending')]_vars

====
